---- MODULE Spec2Model ----
(***************************************************************************)
(* Model of the seating-plan genetic optimiser (src/src/main.rs).          *)
(*                                                                         *)
(* Numbers.  The program computes in f64.  Here every real is an exact     *)
(* rational: the three rates are percentages (0.85 is 85), a histogram     *)
(* distance is a fraction [num, den], and a fitness score is the integer   *)
(* score * FitnessScale(ideal).  Rounding of f64 is not modelled.          *)
(*                                                                         *)
(* Randomness.  Every rng draw is a nondeterministic choice over the       *)
(* values the distribution can return.                                     *)
(***************************************************************************)
EXTENDS Integers, Sequences, FiniteSets, TLC

(* ------------------------------ bounds -------------------------------- *)

\* Largest population_size handed to Generation::new (150 in main).
MaxPop == 2

\* Number of iterations of main's optimisation loop (300 in main).
Generations == 2

\* Longest chromosome given to mutate / cross_over on their own.
MaxLen == 3

\* Largest number of items inserted into one histogram.
MaxTotal == 3

(* ------------------------------ inputs -------------------------------- *)

\* Two records that differ in every attribute.
BadgersPair ==
    << [name |-> "ann", gender |-> "f", discipline |-> "dev", seniority |-> "jr",
        client |-> "x", team |-> "red"],
       [name |-> "bob", gender |-> "m", discipline |-> "ops", seniority |-> "sr",
        client |-> "y", team |-> "blue"] >>

\* Three records forming three attribute combinations.
BadgersTriple ==
    BadgersPair \o
    << [name |-> "cat", gender |-> "x", discipline |-> "ux", seniority |-> "mid",
        client |-> "z", team |-> "green"] >>

\* Group counts handed to Generation::new (9 in main).
GroupCounts == {2, 3}

\* Values main may store in the public rate fields, as
\* <<crossover_rate, mutation_rate, survival_rate>> in percent.
\* <<50, 50, 20>> is what main stores; the others are the end-to-end
\* scenario of the specification and variations of the survival rate.
Settings == { <<50, 50, 20>>, <<50, 50, 50>>, <<50, 50, 100>>,
              <<100, 0, 50>>, <<100, 0, 100>> }

\* The mutation-free end-to-end scenario.
SettingsNoMut == { <<100, 0, 50>>, <<100, 0, 100>> }

\* Values stored in histograms checked on their own.
Values == {"a", "b", "c"}

\* Group-id ranges [lo, hi) given to mutate on its own, as Uniform::new(lo, hi).
Ranges == { <<0, 2>>, <<0, 3>>, <<1, 3>> }

(* ------------------------------ state --------------------------------- *)

VARIABLES
    badgers,         \* main: Vec<Badger> read from the input
    ideal,           \* main: the ideal Profile the fitness closure borrows
    population,      \* Generation.population
    ngroups,         \* Generation.ngroups
    crossover_rate,  \* Generation.crossover_rate   (percent)
    mutation_rate,   \* Generation.mutation_rate    (percent)
    survival_rate,   \* Generation.survival_rate    (percent)
    i,               \* main: loop counter of the optimisation loop
    pc,              \* main: position / panic that ended the run
    report,          \* main: lines printed by the final report
    mother,          \* cross_over / mutate called on their own: first argument
    father,          \* cross_over: second argument
    dist,            \* mutate: the <<lo, hi>> of its Uniform distribution
    child,           \* cross_over / mutate: returned chromosome
    op,              \* which of the two produced child
    h_self,          \* Histogram::diff called on its own: self
    h_other,         \* Histogram::diff: other
    h_diff           \* Histogram::diff: returned fraction; den = 0 before the call

gaVars == <<badgers, ideal, population, ngroups, crossover_rate, mutation_rate,
            survival_rate, i, pc, report>>
opVars == <<mother, father, dist, child, op>>
histVars == <<h_self, h_other, h_diff>>
vars == <<gaVars, opVars, histVars>>

(* ------------------------------ helpers ------------------------------- *)

Abs(x) == IF x < 0 THEN -x ELSE x

Range(s) == { s[k] : k \in DOMAIN s }

RECURSIVE SumOver(_, _)
SumOver(S, f) ==
    IF S = {} THEN 0
    ELSE LET x == CHOOSE y \in S : TRUE IN f[x] + SumOver(S \ {x}, f)

\* Indices 1..Len(key) in the order a stable ascending sort by key leaves them
\* (slice::sort_by is stable).
StableOrder(key) ==
    LET n == Len(key)
        keys == SubSeq(key, 1, n)    \* every key computed once, as sort_by's caller sees it
        rank == SubSeq([j \in 1..n |->
                   Cardinality({ k \in 1..n :
                       keys[k] < keys[j] \/ (keys[k] = keys[j] /\ k < j) })], 1, n)
    IN [r \in 1..n |-> CHOOSE j \in 1..n : rank[j] = r - 1]

\* All sequences over S of length n.
SeqsOfLen(S, n) == [1..n -> S]

(* ------------------------------ Histogram ----------------------------- *)

HistogramNew == [counts |-> <<>>, total |-> 0]

HistogramInsert(h, item) ==
    [counts |-> IF item \in DOMAIN h.counts
                THEN [h.counts EXCEPT ![item] = @ + 1]
                ELSE (item :> 1) @@ h.counts,
     total  |-> h.total + 1]

\* The fraction Histogram::diff returns.
HistogramDiff(self, other) ==
    LET diff == Abs(Cardinality(DOMAIN self.counts) - Cardinality(DOMAIN other.counts))
        sq(key) == LET self_count == self.counts[key]
                       other_count == IF key \in DOMAIN other.counts
                                      THEN other.counts[key] ELSE 0
                   IN (self_count - other_count) * (self_count - other_count)
    IN IF diff > 0 THEN [num |-> diff, den |-> 1]
       ELSE IF DOMAIN self.counts = {} THEN [num |-> 0, den |-> 1]
       ELSE [num |-> SumOver(DOMAIN self.counts, [key \in DOMAIN self.counts |-> sq(key)]),
             den |-> self.total * self.total]

(* ------------------------------ Profile ------------------------------- *)

\* count is a fraction: main overwrites the ideal's count with len / 9.0.
ProfileNew ==
    [genders |-> HistogramNew, disciplines |-> HistogramNew,
     seniorities |-> HistogramNew, clients |-> HistogramNew,
     teams |-> HistogramNew, count |-> [num |-> 0, den |-> 1]]

ProfileInsert(p, badger) ==
    [genders     |-> HistogramInsert(p.genders, badger.gender),
     disciplines |-> HistogramInsert(p.disciplines, badger.discipline),
     seniorities |-> HistogramInsert(p.seniorities, badger.seniority),
     clients     |-> HistogramInsert(p.clients, badger.client),
     teams       |-> HistogramInsert(p.teams, badger.team),
     count       |-> [num |-> p.count.num + 1, den |-> 1]]

RECURSIVE GroupProfile(_, _, _, _)
\* The profile of group g after the first k records: the loop of fitness
\* inserts record k into the profile of group solution[k].
GroupProfile(solution, bs, g, k) ==
    IF k = 0 THEN ProfileNew
    ELSE IF solution[k] = g
         THEN ProfileInsert(GroupProfile(solution, bs, g, k - 1), bs[k])
         ELSE GroupProfile(solution, bs, g, k - 1)

\* main: the profile of all records, its count replaced by len / ngroups.
\* (main writes the literal 9 both here and as ngroups.)
Ideal(bs, g) ==
    [GroupProfile([k \in 1..Len(bs) |-> 0], bs, 0, Len(bs))
        EXCEPT !.count = [num |-> Len(bs), den |-> g]]

(* ------------------------------ fitness ------------------------------- *)

\* fitness() * FitnessScale(idl) is an integer, for idl the ideal profile.
FitnessScale(idl) ==
    idl.count.den * (IF idl.genders.total = 0 THEN 1
                     ELSE idl.genders.total * idl.genders.total)

\* Fitness score, lower is better, times FitnessScale(ideal).
fitness(solution, bs, idl) ==
    LET n2 == FitnessScale(idl) \div idl.count.den
        d(a, b) == LET x == HistogramDiff(a, b) IN x.num * (n2 \div x.den)
        score == [g \in Range(solution) |->
            LET group == GroupProfile(solution, bs, g, Len(solution))
                size == Abs(idl.count.num - group.count.num * idl.count.den)
                gender == d(idl.genders, group.genders)
                discipline == d(idl.disciplines, group.disciplines)
                seniority == d(idl.seniorities, group.seniorities)
                client == d(idl.clients, group.clients)
                team == d(idl.teams, group.teams)
            IN 10 * size * n2
               + idl.count.den * (6 * gender + 3 * discipline + seniority + client + team)
               + 2 * idl.count.den * n2]
    IN SumOver(Range(solution), score)

(* ------------------------------ operators ----------------------------- *)

\* mutate with the sampled value stored one too high.
mutate_shifted(individual, idx, value) ==
    [individual EXCEPT ![idx + 1] = value + 1]

\* mutate with its two draws: idx = rng.gen_range(0, len), value = rng.sample(dist).
\* Positions are 0-based as in the program.
mutate(individual, idx, value) ==
    [individual EXCEPT ![idx + 1] = value]

\* cross_over with the two slices taken from the wrong parents.
cross_over_swapped(m, f, crossover_point) ==
    SubSeq(f, 1, crossover_point) \o SubSeq(m, crossover_point + 1, Len(m))

\* cross_over with the father's slice starting one gene late.
cross_over_gap(m, f, crossover_point) ==
    SubSeq(m, 1, crossover_point) \o SubSeq(f, crossover_point + 2, Len(f))

\* cross_over with its draw crossover_point = rng.gen_range(0, mother.len()).
cross_over(m, f, crossover_point) ==
    SubSeq(m, 1, crossover_point) \o SubSeq(f, crossover_point + 1, Len(f))

(* ------------------------------ Generation ---------------------------- *)

\* The closure main hands to Generation::new.
Fitness(solution) == fitness(solution, badgers, ideal)

\* fittest with the comparison reversed (best last).
fittest_reversed(pop, rate) ==
    LET order == StableOrder([k \in 1..Len(pop) |-> 0 - Fitness(pop[k])])
        sorted == [r \in 1..Len(pop) |-> pop[order[r]]]
        survivor_count == (Len(pop) * rate) \div 100
    IN SubSeq(sorted, 1, survivor_count)

\* Generation::fittest on a population with a survival rate.
fittest(pop, rate) ==
    LET order == StableOrder([k \in 1..Len(pop) |-> Fitness(pop[k])])
        sorted == [r \in 1..Len(pop) |-> pop[order[r]]]
        survivor_count == (Len(pop) * rate) \div 100
    IN SubSeq(sorted, 1, survivor_count)

\* rng.gen_bool(p): the outcomes that have non-zero probability.
GenBool(p) == IF p <= 0 THEN {FALSE} ELSE IF p >= 100 THEN {TRUE} ELSE BOOLEAN

\* The draws next_gen makes for one slot of the new population.  A draw that
\* is not made is recorded as 0.
SlotDraws(fittest_count, len) ==
    LET crossDraws(c) == IF c THEN (0..(fittest_count - 1)) \X (0..(len - 1))
                         ELSE {<<0, 0>>}
        mutDraws(m) == IF m THEN (0..(len - 1)) \X (0..(ngroups - 1))
                       ELSE {<<0, 0>>}
    IN UNION { { [mother |-> mo, cross |-> c, father |-> cd[1], point |-> cd[2],
                  mut |-> m, idx |-> md[1], value |-> md[2]] :
                   mo \in 0..(fittest_count - 1), cd \in crossDraws(c), md \in mutDraws(m) } :
               c \in GenBool(crossover_rate), m \in GenBool(mutation_rate) }

\* The chromosome next_gen pushes for one slot, given its draws.
SlotResult(fit, d) ==
    LET bred == IF d.cross
                THEN cross_over(fit[d.mother + 1], fit[d.father + 1], d.point)
                ELSE fit[d.mother + 1]
    IN IF d.mut THEN mutate(bred, d.idx, d.value) ELSE bred

\* next_gen filling one slot per survivor instead of one per old chromosome.
NextPopulationsPerSurvivor(size, fit) ==
    LET outcomes == { SlotResult(fit, d) : d \in SlotDraws(Len(fit), Len(badgers)) }
    IN SeqsOfLen(outcomes, Len(fit))

\* Every population next_gen can return from the survivors fit: the slots
\* are filled by independent draws.
NextPopulations(size, fit) ==
    LET outcomes == { SlotResult(fit, d) : d \in SlotDraws(Len(fit), Len(badgers)) }
    IN SeqsOfLen(outcomes, size)

\* Generation::next_gen.  With no survivor the first gen_range(0, 0) panics.
next_gen ==
    LET size == Len(population)
        fit == fittest(population, survival_rate)
    IN IF size > 0 /\ Len(fit) = 0
       THEN /\ pc' = "panic_empty_range"
            /\ UNCHANGED population
       ELSE \E new \in NextPopulations(size, fit) :
              IF Len(new) = size
              THEN /\ population' = new
                   /\ pc' = pc
              ELSE /\ pc' = "panic_assert"
                   /\ UNCHANGED population

(* ------------------------------ main ---------------------------------- *)

\* Generation::new(population_size, g, Len(bs), fitness): genes are drawn from
\* Uniform::new(1, g), the rates get their defaults.
GenerationNew(bs, population_size, g) ==
    /\ badgers = bs
    /\ ideal = Ideal(bs, g)
    /\ ngroups = g
    /\ population \in SeqsOfLen(SeqsOfLen(1..(g - 1), Len(bs)), population_size)
    /\ crossover_rate = 85
    /\ mutation_rate = 15
    /\ survival_rate = 20

NoOps == mother = <<>> /\ father = <<>> /\ dist = <<0, 0>> /\ child = <<>> /\ op = "none"
NoDiff == [num |-> 0, den |-> 0]
NoHist == h_self = HistogramNew /\ h_other = HistogramNew /\ h_diff = NoDiff

Init ==
    /\ \E population_size \in 1..MaxPop, g \in GroupCounts :
         GenerationNew(BadgersPair, population_size, g)
    /\ i = 0
    /\ pc = "new"
    /\ report = <<>>
    /\ NoOps /\ NoHist

\* main: "metaheuristic parameters", stored from the set S.
ConfigureWith(S) ==
    /\ pc = "new"
    /\ \E s \in S :
         /\ crossover_rate' = s[1]
         /\ mutation_rate' = s[2]
         /\ survival_rate' = s[3]
    /\ pc' = "loop"
    /\ UNCHANGED <<badgers, ideal, population, ngroups, i, report, opVars, histVars>>

Configure == ConfigureWith(Settings)

\* main: one iteration of the optimisation loop.  best = &fittest[0] panics on
\* an empty survivor list before next_gen is called.
LoopStep ==
    /\ pc = "loop"
    /\ i < Generations
    /\ IF fittest(population, survival_rate) = <<>>
       THEN /\ pc' = "panic_index"
            /\ UNCHANGED <<population, i>>
       ELSE /\ next_gen
            /\ i' = IF pc' = pc THEN i + 1 ELSE i
    /\ UNCHANGED <<badgers, ideal, ngroups, crossover_rate, mutation_rate, survival_rate,
                   report, opVars, histVars>>

RECURSIVE ReportLines(_, _, _)
\* main: the lines the report loop prints for tagged[k..], entered with `group`.
ReportLines(tagged, k, group) ==
    IF k > Len(tagged) THEN <<>>
    ELSE LET g == tagged[k][1]
             group2 == IF g > group THEN group + 1 ELSE group
             header == IF g > group THEN << [header |-> group2] >> ELSE <<>>
         IN header \o << [member |-> tagged[k][2]] >> \o ReportLines(tagged, k + 1, group2)

\* main: "Print results".  tagged pairs each gene with its record (here the
\* record's index) and is sorted by gene.
Report ==
    /\ pc = "loop"
    /\ i = Generations
    /\ LET fit == fittest(population, survival_rate)
       IN IF fit = <<>>
          THEN /\ pc' = "panic_index"
               /\ UNCHANGED report
          ELSE LET best == fit[1]
                   order == StableOrder(best)
                   tagged == [r \in 1..Len(best) |-> <<best[order[r]], order[r]>>]
               IN /\ report' = ReportLines(tagged, 1, 0)
                  /\ pc' = "done"
    /\ UNCHANGED <<badgers, ideal, population, ngroups, crossover_rate, mutation_rate,
                   survival_rate, i, opVars, histVars>>

Next == Configure \/ LoopStep \/ Report

Spec == Init /\ [][Next]_vars

(* ---------------- the mutation-free end-to-end scenario ---------------- *)

\* Three records in three attribute combinations, three groups, the largest
\* population, cross-over always, mutation never.
InitNoMut ==
    /\ GenerationNew(BadgersTriple, MaxPop, 3)
    /\ i = 0
    /\ pc = "new"
    /\ report = <<>>
    /\ NoOps /\ NoHist

ConfigureNoMut == ConfigureWith(SettingsNoMut)

NextNoMut == ConfigureNoMut \/ LoopStep \/ Report

SpecNoMut == InitNoMut /\ [][NextNoMut]_vars

(* ---------------- mutate and cross_over on their own ------------------- *)

NoGa ==
    /\ badgers = <<>> /\ ideal = ProfileNew /\ population = <<>> /\ ngroups = 0
    /\ crossover_rate = 0 /\ mutation_rate = 0 /\ survival_rate = 0
    /\ i = 0 /\ pc = "none" /\ report = <<>>

\* Genes of the chromosomes handed to the two operators.
Genes == 0..2

\* Two parents of one length (chromosomes of one population), and a range.
InitOps ==
    /\ NoGa /\ NoHist
    /\ \E len \in 1..MaxLen :
         /\ mother \in SeqsOfLen(Genes, len)
         /\ father \in SeqsOfLen(Genes, len)
    /\ dist \in Ranges
    /\ child = <<>>
    /\ op = "none"

\* child = mutate(&mother, Uniform::new(dist[1], dist[2])).
Mutate ==
    /\ op = "none"
    /\ \E idx \in 0..(Len(mother) - 1), value \in dist[1]..(dist[2] - 1) :
         child' = mutate(mother, idx, value)
    /\ op' = "mutate"
    /\ UNCHANGED <<mother, father, dist, gaVars, histVars>>

\* child = cross_over(&mother, &father).
CrossOver ==
    /\ op = "none"
    /\ \E crossover_point \in 0..(Len(mother) - 1) :
         child' = cross_over(mother, father, crossover_point)
    /\ op' = "cross_over"
    /\ UNCHANGED <<mother, father, dist, gaVars, histVars>>

NextOps == Mutate \/ CrossOver

SpecOps == InitOps /\ [][NextOps]_vars

(* ---------------- Histogram on its own --------------------------------- *)

InitHist ==
    /\ NoGa /\ NoOps
    /\ h_self = HistogramNew
    /\ h_other = HistogramNew
    /\ h_diff = NoDiff

InsertSelf ==
    /\ h_diff = NoDiff
    /\ h_self.total < MaxTotal
    /\ \E item \in Values : h_self' = HistogramInsert(h_self, item)
    /\ UNCHANGED <<h_other, h_diff, gaVars, opVars>>

InsertOther ==
    /\ h_diff = NoDiff
    /\ h_other.total < MaxTotal
    /\ \E item \in Values : h_other' = HistogramInsert(h_other, item)
    /\ UNCHANGED <<h_self, h_diff, gaVars, opVars>>

\* h_diff = h_self.diff(&h_other).
Diff ==
    /\ h_diff = NoDiff
    /\ h_diff' = HistogramDiff(h_self, h_other)
    /\ UNCHANGED <<h_self, h_other, gaVars, opVars>>

NextHist == InsertSelf \/ InsertOther \/ Diff

SpecHist == InitHist /\ [][NextHist]_vars

(* ------------------------------ claims --------------------------------- *)

Count(seq, c) == Cardinality({ k \in DOMAIN seq : seq[k] = c })

MinFitness(pop) ==
    LET S == { Fitness(pop[k]) : k \in DOMAIN pop }
    IN CHOOSE m \in S : \A x \in S : m <= x

Survivors == fittest(population, survival_rate)

\* A step of the optimisation loop in which next_gen returned.
NextGenStep == pc = "loop" /\ pc' = "loop" /\ i' = i + 1

\* C1: a configuration whose survivor count floor(size * survival_rate) is 0
\* is rejected when the Generation is configured: once main has configured
\* it, fittest() never returns an empty list and neither main nor next_gen
\* runs into the empty list.
C1_ZeroSurvivorsRejected ==
    pc \in {"loop", "done", "panic_index", "panic_empty_range"}
        => (Survivors # <<>> /\ pc \notin {"panic_index", "panic_empty_range"})

\* C2 (as claimed): with mutation disabled and cross-over certain, the best
\* fitness of the population next_gen returns is never worse (greater) than
\* the best fitness of the population it was given.
C2_BestNeverWorse ==
    [][(NextGenStep /\ mutation_rate = 0 /\ crossover_rate = 100)
          => MinFitness(population') <= MinFitness(population)]_vars

\* Some slot of population' can have been bred from the top-ranked survivor
\* alone: it was drawn as mother and, if cross-over happened, as father too,
\* and the slot was not mutated.
EliteSlot ==
    LET fit == Survivors
        elite == { SlotResult(fit, d) :
                     d \in { x \in SlotDraws(Len(fit), Len(badgers)) :
                               x.mother = 0 /\ (x.cross => x.father = 0) /\ ~x.mut } }
    IN \E j \in DOMAIN population' : population'[j] \in elite

\* C2 (amended): with mutation disabled, the best fitness of the population
\* next_gen returns is no worse than before whenever some slot was bred from
\* the top-ranked survivor alone (it is worse only if no slot was).
C2_BestKeptByEliteSlot ==
    [][(NextGenStep /\ mutation_rate = 0)
          => (MinFitness(population') <= MinFitness(population) \/ ~EliteSlot)]_vars

\* C2 witness: a mutation-free generation bred from two survivors that still
\* holds chromosomes of different fitness.
C2_Witness ==
    /\ pc = "loop" /\ i >= 1
    /\ mutation_rate = 0 /\ crossover_rate = 100
    /\ Len(Survivors) >= 2
    /\ \E a, b \in DOMAIN population : Fitness(population[a]) < Fitness(population[b])

\* C3: in the mutation-free scenario with three groups, after the last
\* generation the best chromosome uses exactly three distinct group ids.
C3_ThreeGroups ==
    (pc \in {"loop", "done"} /\ i = Generations /\ ngroups = 3 /\ mutation_rate = 0)
        => Cardinality(Range(Survivors[1])) = 3

\* C4 (as claimed): cross_over of two chromosomes of length 1 returns the
\* mother's gene.
C4_ReturnsMother ==
    (op = "cross_over" /\ Len(mother) = 1) => child = mother

\* C4 (amended): cross_over of two chromosomes of length 1 returns a
\* chromosome of length 1 holding the father's gene.
C4_ReturnsFather ==
    (op = "cross_over" /\ Len(mother) = 1) => (Len(child) = 1 /\ child = father)

\* C4 witness: parents of length 1 with different genes were crossed.
C4_Witness ==
    op = "cross_over" /\ Len(mother) = 1 /\ mother # father

\* C5: for histograms with the same number of distinct values, diff is the
\* sum over self's values of the squared difference of the two proportions,
\* each proportion taken over its own histogram's total.
C5_DiffOwnTotals ==
    (h_diff.den # 0
       /\ Cardinality(DOMAIN h_self.counts) = Cardinality(DOMAIN h_other.counts))
    => LET get(h, key) == IF key \in DOMAIN h.counts THEN h.counts[key] ELSE 0
           term == [key \in DOMAIN h_self.counts |->
                      (get(h_self, key) * h_other.total - get(h_other, key) * h_self.total)
                    * (get(h_self, key) * h_other.total - get(h_other, key) * h_self.total)]
           claimed == IF DOMAIN h_self.counts = {}
                      THEN [num |-> 0, den |-> 1]
                      ELSE [num |-> SumOver(DOMAIN h_self.counts, term),
                            den |-> h_self.total * h_other.total
                                    * h_self.total * h_other.total]
       IN h_diff.num * claimed.den = claimed.num * h_diff.den

\* C6: every chromosome of the population is as long as the list of records.
C6_ChromosomeLength ==
    \A k \in DOMAIN population : Len(population[k]) = Len(badgers)

\* C6 witness: the last generation of a run with cross-over, cloning and
\* mutation (group id 0 only comes from mutation), bred from two survivors.
C6_Witness ==
    /\ pc = "loop" /\ i = Generations
    /\ crossover_rate = 50 /\ mutation_rate = 50
    /\ Len(Survivors) = 2
    /\ \E k \in DOMAIN population : 0 \in Range(population[k])

\* C7: a step never changes the size of the population, and the assertion at
\* the end of next_gen never fails.
C7_PopulationSize ==
    [][Len(population') = Len(population) /\ pc' # "panic_assert"]_vars

\* C7 witness: the last generation of a population of the largest size,
\* bred from a single survivor.
C7_Witness ==
    pc = "loop" /\ i = Generations /\ Len(population) = MaxPop /\ Len(Survivors) = 1

\* C8: fittest() returns floor(size * survival_rate) chromosomes, a
\* sub-multiset of the population, in non-decreasing order of fitness, and no
\* chromosome left out is strictly better than one returned.
C8_Fittest ==
    LET f == Survivors
        n == Len(population)
    IN /\ Len(f) * 100 <= n * survival_rate
       /\ n * survival_rate < (Len(f) + 1) * 100
       /\ \A c \in Range(f) : Count(f, c) <= Count(population, c)
       /\ \A a, b \in DOMAIN f : a < b => Fitness(f[a]) <= Fitness(f[b])
       /\ \A c \in Range(population) :
            Count(f, c) < Count(population, c)
                => \A x \in Range(f) : Fitness(x) <= Fitness(c)

\* C8 witness: a bred population from which fittest() leaves out a chromosome
\* that is strictly worse than the one it returns.
C8_Witness ==
    /\ pc = "loop" /\ i >= 1
    /\ Len(Survivors) = 1
    /\ \E k \in DOMAIN population : Fitness(Survivors[1]) < Fitness(population[k])

\* C9: mutate returns a chromosome of the same length that differs from its
\* argument in at most one position, whose value lies in the range, and
\* leaves its argument as it was.
C9_Mutate ==
    [][op' = "mutate" =>
         /\ mother' = mother
         /\ Len(child') = Len(mother)
         /\ Cardinality({ k \in DOMAIN mother : child'[k] # mother[k] }) <= 1
         /\ \A k \in DOMAIN mother :
              child'[k] # mother[k] => (dist[1] <= child'[k] /\ child'[k] < dist[2])]_vars

\* C9 witness: mutate changed a gene of a chromosome longer than one gene.
C9_Witness ==
    op = "mutate" /\ Len(mother) > 1 /\ child # mother

IsHeader(line) == "header" \in DOMAIN line

\* Position in the report of the header above line p; 0 if there is none.
HeaderAbove(p) ==
    LET H == { q \in 1..(p - 1) : IsHeader(report[q]) }
    IN IF H = {} THEN 0 ELSE CHOOSE q \in H : \A r \in H : r <= q

\* Position in the report of the line of member k.
MemberLine(k) ==
    CHOOSE p \in DOMAIN report : ~IsHeader(report[p]) /\ report[p].member = k

\* C10: in the final report every member stands below a header, two members
\* stand below the same header exactly when they have the same group id, and
\* there is one header per non-empty group.
C10_ReportGroups ==
    pc = "done" =>
      LET best == Survivors[1]
      IN /\ \A k \in DOMAIN best : HeaderAbove(MemberLine(k)) # 0
         /\ \A k1, k2 \in DOMAIN best :
              (HeaderAbove(MemberLine(k1)) = HeaderAbove(MemberLine(k2)))
                  <=> (best[k1] = best[k2])
         /\ Cardinality({ p \in DOMAIN report : IsHeader(report[p]) })
              = Cardinality(Range(best))

====
